---- MODULE Spec2Model ----
(***************************************************************************)
(* ACME work items extraction bot (ACME_Work_items_extraction.py) and the  *)
(* Windows credential helper it uses (wincred.py).                         *)
(*                                                                         *)
(* Python values are pairs <<type, payload>>, so that the type tests of    *)
(* read_config_value and the None tests of its callers are computed, not   *)
(* assumed.  Exceptions are records [type, msg]: main() routes on the      *)
(* type's name and puts str(ex) into the failure email.                    *)
(***************************************************************************)
EXTENDS Integers, Sequences, FiniteSets, TLC

VARIABLES
    config,      \* the Settings sheet: a sequence of rows [Name, Value]
    key,         \* argument of a stand-alone read_config_value call
    ret,         \* what that call returned
    store,       \* Windows Credential Manager: credential name -> entry state
    site,        \* the listing: site[p] is the pagination markup of page p
    pc,          \* position of main()
    exc,         \* the exception caught by main()'s except clause
    failedAt,    \* the step of the try block that raised it
    escaped,     \* the exception that left main(), raised inside the except clause
    emails,      \* the emails handed to sendmail, in order
    smtpOpen,    \* SMTP sessions opened and not quit
    credHeld,    \* credential buffers read and not CredFree'd
    cnxnOpen,    \* pyodbc connections opened and not closed
    cursorOpen,  \* pyodbc cursors opened and not closed
    session,     \* login() returned a session
    posts,       \* credential POSTs issued by login()
    url,         \* scraping(): url
    row_data,    \* scraping(): row_data
    headers,     \* scraping(): the th cells of the soup parsed last
    fetches,     \* scraping(): the pages fetched with session.get, in order
    results,     \* the DataFrame returned by scraping()
    dbLookups,   \* insert_into_db(): configuration and credential lookups made
    dbConnects,  \* insert_into_db(): pyodbc.connect calls
    inserted,    \* insert_into_db(): INSERT statements executed
    committed    \* insert_into_db(): cnxn.commit() done

vars == <<config, key, ret, store, site, pc, exc, failedAt, escaped, emails,
          smtpOpen, credHeld, cnxnOpen, cursorOpen, session, posts, url,
          row_data, headers, fetches, results, dbLookups, dbConnects,
          inserted, committed>>

(***************************************************************************)
(* Bounds                                                                  *)
(***************************************************************************)
\* longest listing (pages) the site is drawn from
MaxPages == 3
\* most rows of a configuration table given to a stand-alone lookup
MaxConfigRows == 2

(***************************************************************************)
(* Python values and exceptions                                            *)
(***************************************************************************)
None == <<"NoneType", "">>
PyStr(s) == <<"str", s>>
PyInt(s) == <<"int", s>>

Exc(t, m) == [type |-> t, msg |-> m]
NoExc == Exc("", "")

BusinessException(m) == Exc("BusinessException", m)

(***************************************************************************)
(* Configuration                                                           *)
(***************************************************************************)
\* dtype pandas gives the Value column: a column holding only integers is
\* int64, one holding only numbers is float64, anything mixed is object.
ColumnDtype(cfg) ==
    LET ts == {cfg[i].Value[1] : i \in DOMAIN cfg}
    IN  IF ts = {} THEN "object"
        ELSE IF ts \subseteq {"int"} THEN "int64"
        ELSE IF ts \subseteq {"int", "float"} THEN "float64"
        ELSE IF ts \subseteq {"bool"} THEN "bool"
        ELSE "object"

\* config[config['Name'] == key]['Value'].values: the matching cells as the
\* column stores them (Python objects in an object column, numpy scalars
\* otherwise).
ColumnValues(k, cfg) ==
    LET Match(r) == r.Name = k
        rows == SelectSeq(cfg, Match)
        dt == ColumnDtype(cfg)
    IN  [i \in 1..Len(rows) |->
            IF dt = "object" THEN rows[i].Value ELSE <<dt, rows[i].Value[2]>>]

read_config_value(k, cfg) ==
    LET values == ColumnValues(k, cfg)
    IN  IF /\ Len(values) = 1
           /\ values[1] # PyStr("")
           /\ (values[1][1] = "str" \/ values[1][1] = "int")
        THEN values[1]
        ELSE None

ConfigKeys == {"login_url", "extract_url", "ACME_credential_name",
               "DB_credential_name", "DB_server_name", "email_server_name",
               "email_port", "email_credential_name", "business_users",
               "technical_users"}

\* URL of page p of the listing
PageUrl == <<"/work-items?page=1", "/work-items?page=2", "/work-items?page=3",
             "/work-items?page=4", "/work-items?page=5", "/work-items?page=6">>

PageOf(u) == CHOOSE p \in DOMAIN PageUrl : PageUrl[p] = u

FullConfig ==
    << [Name |-> "login_url",             Value |-> PyStr("/login")],
       [Name |-> "extract_url",           Value |-> PyStr(PageUrl[1])],
       [Name |-> "ACME_credential_name",  Value |-> PyStr("ACME_cred")],
       [Name |-> "DB_credential_name",    Value |-> PyStr("DB_cred")],
       [Name |-> "DB_server_name",        Value |-> PyStr("sqlserver")],
       [Name |-> "email_server_name",     Value |-> PyStr("smtp.acme")],
       [Name |-> "email_port",            Value |-> PyInt("587")],
       [Name |-> "email_credential_name", Value |-> PyStr("email_cred")],
       [Name |-> "business_users",        Value |-> PyStr("business@acme")],
       [Name |-> "technical_users",       Value |-> PyStr("technical@acme")] >>

Without(k) == LET Keep(r) == r.Name # k IN SelectSeq(FullConfig, Keep)

(***************************************************************************)
(* Credential store                                                        *)
(***************************************************************************)
CredNames == {"ACME_cred", "DB_cred", "email_cred"}

\* ok: entry with user name and password; absent: CredReadW finds nothing;
\* nouser: entry whose UserName is NULL; corrupt: entry whose blob cannot be
\* copied (the list comprehension raises).
EntryStates == {"ok", "absent", "nouser", "corrupt"}

AllOk == [n \in CredNames |-> "ok"]

\* wincred.get_generic_credential: what the call returns or raises, and how
\* many credential buffers it obtained from CredReadW and released with
\* CredFree.
get_generic_credential(name) ==
    IF name[1] # "str" \/ name[2] \notin CredNames \/ store[name[2]] = "absent"
    THEN [raised |-> NoExc, found |-> FALSE, username |-> None,
          acquired |-> 0, freed |-> 0]
    ELSE IF store[name[2]] = "corrupt"
    THEN [raised |-> Exc("ValueError", "NULL pointer access"),
          found |-> FALSE, username |-> None, acquired |-> 1, freed |-> 1]
    ELSE IF store[name[2]] = "nouser"
    THEN [raised |-> NoExc, found |-> TRUE, username |-> None,
          acquired |-> 1, freed |-> 1]
    ELSE [raised |-> NoExc, found |-> TRUE, username |-> PyStr(name[2]),
          acquired |-> 1, freed |-> 1]

\* username, password = wincred.get_generic_credential(cred_name)
Unpack(c) ==
    IF c.raised # NoExc THEN c.raised
    ELSE IF ~c.found
    THEN Exc("TypeError", "cannot unpack non-iterable NoneType object")
    ELSE NoExc

(***************************************************************************)
(* send_email                                                              *)
(***************************************************************************)
\* what the SMTP server does with one session
SmtpOutcomes == {"connect_fail", "starttls_fail", "login_fail",
                 "sendmail_fail", "sent"}

\* send_email(user_type, subject, content, attachment_name, file): the exception it raises (NoExc
\* when it returns), the messages handed to sendmail, the SMTP sessions and
\* credential buffers it leaves unreleased.
send_email(user_type, subject, content, attachment_name, outcome) ==
    LET SERVER == read_config_value("email_server_name", config)
        PORT == read_config_value("email_port", config)
        cred_name == read_config_value("email_credential_name", config)
        cred == get_generic_credential(cred_name)
        TO == IF user_type = "business"
              THEN read_config_value("business_users", config)
              ELSE read_config_value("technical_users", config)
        Result(e, sent, open) ==
            [raised |-> e, sent |-> sent, smtp |-> open,
             held |-> cred.acquired - cred.freed]
        msg == [To |-> TO[2], Subject |-> subject, Body |-> content,
                Attachment |-> attachment_name]
    IN  IF Unpack(cred) # NoExc THEN Result(Unpack(cred), <<>>, 0)
        ELSE IF SERVER = None \/ PORT = None \/ cred.username = None \/ TO = None
        THEN Result(BusinessException(
                 "Unable to identify required parameters for email SMPT settings."),
                 <<>>, 0)
        ELSE CASE outcome = "connect_fail" ->
                    Result(Exc("ConnectionRefusedError", "Connection refused"), <<>>, 0)
               [] outcome = "starttls_fail" ->
                    Result(Exc("SMTPNotSupportedError",
                               "STARTTLS extension not supported by server."), <<>>, 1)
               [] outcome = "login_fail" ->
                    Result(Exc("SMTPAuthenticationError",
                               "Username and Password not accepted"), <<>>, 1)
               [] outcome = "sendmail_fail" ->
                    Result(Exc("SMTPRecipientsRefused", "recipients refused"), <<>>, 1)
               [] OTHER -> Result(NoExc, <<msg>>, 1 - 1)

(***************************************************************************)
(* login                                                                   *)
(***************************************************************************)
\* what the ACME website does with the GET and the POST of login()
LoginOutcomes == {"get_error", "no_token", "post_401", "post_200"}

\* line 63 raising a plain Exception
MissingLoginUrlPlain ==
    Exc("Exception", "Unable to identify login URL in Config file.")

\* line 63
MissingLoginUrl ==
    BusinessException("Unable to identify login URL in Config file.")

login(outcome) ==
    LET login_url == read_config_value("login_url", config)
        cred_name == read_config_value("ACME_credential_name", config)
        cred == get_generic_credential(cred_name)
        held == cred.acquired - cred.freed
        Result(e, s, p, h) == [raised |-> e, session |-> s, posts |-> p, held |-> h]
    IN  IF login_url = None
        THEN Result(MissingLoginUrl, FALSE, 0, 0)
        ELSE IF cred_name = None
        THEN Result(BusinessException(
                 "Unable to identify ACME credentail name in Config file."),
                 FALSE, 0, 0)
        ELSE IF Unpack(cred) # NoExc THEN Result(Unpack(cred), FALSE, 0, held)
        ELSE IF cred.username = None
        THEN Result(BusinessException(
                 "Login credentials cannot be found in Windows Credential Manager."),
                 FALSE, 0, held)
        ELSE CASE outcome = "get_error" ->
                    Result(Exc("ConnectionError", "Max retries exceeded"), FALSE, 0, held)
               [] outcome = "no_token" ->
                    Result(Exc("TypeError", "'NoneType' object is not subscriptable"),
                           FALSE, 0, held)
               [] outcome = "post_401" ->
                    Result(Exc("Exception", "Unable to login into ACME Website."),
                           FALSE, 1, held)
               [] OTHER -> Result(NoExc, TRUE, 1, held)

(***************************************************************************)
(* scraping                                                                *)
(***************************************************************************)
\* Pagination markup of a page: the marker li[aria-current=page] is followed
\* by a li with a link to the next page (next); the page has no
\* ul.page-numbers (noControl); the ul has no marker (noCurrent); the marker
\* has no following li (noSibling); the following li has no a (noLink); the
\* a has no href (noHref); the href is empty (emptyHref).
PagKinds == {"next", "noControl", "noCurrent", "noSibling", "noLink",
             "noHref", "emptyHref"}

\* the two header rows the listing is served with
HeaderVariants == {<<"WIID", "Description", "Type", "Status", "Date", "Actions">>,
                   <<"WIID", "Description", "Type", "Status", "Date">>}

\* Status cells of the data rows of one page
PageRowChoices == {<<>>, <<"Open">>, <<"Closed">>, <<"Closed", "Open">>}

\* WIID of row i of page p
WiidTable == << <<"WI11", "WI12">>, <<"WI21", "WI22">>, <<"WI31", "WI32">>,
                <<"WI41", "WI42">>, <<"WI51", "WI52">>, <<"WI61", "WI62">> >>

\* the td texts of data row i of page p under header row th
DataRow(p, i, status, th) ==
    [j \in 1..Len(th) |->
        IF th[j] = "WIID" THEN WiidTable[p][i]
        ELSE IF th[j] = "Status" THEN status
        ELSE th[j]]

\* all tr of the page's table: the header tr has no td, so it gives []
TableRows(p, statuses, th) ==
    <<<<>>>> \o [i \in 1..Len(statuses) |-> DataRow(p, i, statuses[i], th)]

Response(e, status, table, th, trs) ==
    [raised |-> e, status |-> status, table |-> table, th |-> th, trs |-> trs]

\* what session.get(url) can answer for page p
Responses(p) ==
    IF p > Len(site)
    THEN {Response(NoExc, 404, FALSE, <<>>, <<>>)}
    ELSE {Response(Exc("ConnectionError", "Max retries exceeded"), 0, FALSE, <<>>, <<>>),
          Response(NoExc, 500, FALSE, <<>>, <<>>),
          Response(NoExc, 200, FALSE, <<>>, <<>>)}
         \cup {Response(NoExc, 200, TRUE, th, TableRows(p, st, th)) :
                 th \in HeaderVariants, st \in PageRowChoices}

\* the bare except of line 130 leaving next_url as None
next_url_none_on_failure(kind, p) ==
    CASE kind = "next" -> PyStr(PageUrl[p + 1])
      [] kind = "emptyHref" -> PyStr("")
      [] OTHER -> None

\* lines 127-130: the try block and its bare except, on a page that has a
\* ul.page-numbers
next_url(kind, p) ==
    CASE kind = "next" -> PyStr(PageUrl[p + 1])
      [] kind = "noHref" -> None
      [] kind = "emptyHref" -> PyStr("")
      [] OTHER -> PyStr("")

Max(a, b) == IF a >= b THEN a ELSE b

RECURSIVE MaxRowLen(_)
MaxRowLen(rows) ==
    IF rows = <<>> THEN 0 ELSE Max(Len(Head(rows)), MaxRowLen(Tail(rows)))

Range(s) == {s[i] : i \in DOMAIN s}

IndexOf(s, x) == CHOOSE i \in DOMAIN s : s[i] = x /\ \A j \in 1..(i - 1) : s[j] # x

\* pd.DataFrame(row_data, columns=headers): short rows are padded with None
Padded(rows, cols) ==
    [i \in 1..Len(rows) |->
        [j \in 1..Len(cols) |-> IF j <= Len(rows[i]) THEN rows[i][j] ELSE "None"]]

\* the filter of line 146 written as Status != 'Closed'
FilterNotClosed(rows, cols) ==
    LET st == IndexOf(cols, "Status")
        NotClosed(r) == r[st] # "Closed"
    IN  SelectSeq(rows, NotClosed)

\* results[results['Status'] == 'Open']
FilterOpen(rows, cols) ==
    LET st == IndexOf(cols, "Status")
        IsOpen(r) == r[st] = "Open"
    IN  SelectSeq(rows, IsOpen)

\* results.loc[:, results.columns != 'Actions']
DropActions(rows, cols) ==
    LET NotActions(j) == cols[j] # "Actions"
        keep == SelectSeq([j \in 1..Len(cols) |-> j], NotActions)
    IN  [columns |-> [k \in 1..Len(keep) |-> cols[keep[k]]],
         rows |-> [i \in 1..Len(rows) |-> [k \in 1..Len(keep) |-> rows[i][keep[k]]]]]

EmptyFrame == [columns |-> <<>>, rows |-> <<>>]

\* lines 138-149
frame(rows, cols) ==
    IF rows # <<>> /\ MaxRowLen(rows) # Len(cols)
    THEN [raised |-> Exc("ValueError", "columns passed, passed data had other columns"),
          results |-> EmptyFrame]
    ELSE IF "Status" \notin Range(cols)
    THEN [raised |-> Exc("KeyError", "'Status'"), results |-> EmptyFrame]
    ELSE [raised |-> NoExc,
          results |-> DropActions(FilterOpen(Padded(rows, cols), cols), cols)]

(***************************************************************************)
(* insert_into_db                                                          *)
(***************************************************************************)
\* what SQL Server does: refuse the connection, fail the at-th INSERT, fail
\* the commit, or accept everything
InsertOutcomes(res) ==
    {[kind |-> k, at |-> 0] : k \in {"connect_fail", "commit_fail", "ok"}}
    \cup {[kind |-> "execute_fail", at |-> n] : n \in 1..Len(res.rows)}

\* lines 158-175: the branch taken for a non-empty collection
InsertRows(res, outcome) ==
    LET cred_name == read_config_value("DB_credential_name", config)
        server == read_config_value("DB_server_name", config)
        cred == get_generic_credential(cred_name)
        held == cred.acquired - cred.freed
        Result(e, cn, ins, com, cx, cu) ==
            [raised |-> e, lookups |-> 3, connects |-> cn, inserted |-> ins,
             committed |-> com, cnxn |-> cx, cursor |-> cu, held |-> held]
        n == Len(res.rows)
    IN  IF Unpack(cred) # NoExc
        THEN Result(Unpack(cred), 0, 0, FALSE, 0, 0)
        ELSE IF server = None \/ cred.username = None
        THEN Result(BusinessException(
                 "Unable to identify required parameters for SQL Server connection."),
                 0, 0, FALSE, 0, 0)
        ELSE CASE outcome.kind = "connect_fail" ->
                    Result(Exc("OperationalError", "SQL Server does not exist"),
                           1, 0, FALSE, 0, 0)
               [] outcome.kind = "execute_fail" ->
                    Result(Exc("ProgrammingError", "INSERT failed"),
                           1, outcome.at - 1, FALSE, 1, 1)
               [] outcome.kind = "commit_fail" ->
                    Result(Exc("Error", "commit failed"), 1, n, FALSE, 1, 1)
               [] OTHER -> Result(NoExc, 1, n, TRUE, 1, 1 - 1)

\* the guard of line 157 dropped
insert_into_db_unguarded(res, outcome) == InsertRows(res, outcome)

insert_into_db(res, outcome) ==
    IF Len(res.rows) > 0
    THEN InsertRows(res, outcome)
    ELSE [raised |-> BusinessException(
                 "There are no work items available in ACME website to extract"),
          lookups |-> 0, connects |-> 0, inserted |-> 0, committed |-> FALSE,
          cnxn |-> 0, cursor |-> 0, held |-> 0]

(***************************************************************************)
(* main                                                                    *)
(***************************************************************************)
\* the test of line 244 always taken
AudienceAlwaysBusiness(ex) == "business"

\* line 244: 'BusinessException' in str(type(ex))
Audience(ex) == IF ex.type = "BusinessException" THEN "business" ELSE "technical"

FailureSubject(ex) ==
    IF Audience(ex) = "business" THEN "Business Exception" ELSE "Technical Exception"

envVars == <<config, key, ret, store, site>>
scrapeVars == <<url, row_data, headers, fetches, results>>
dbVars == <<dbLookups, dbConnects, inserted, committed, cnxnOpen, cursorOpen>>

\* an exception of the try block reaches the except clause of main()
Raise(step, e) ==
    /\ pc' = "except"
    /\ exc' = e
    /\ failedAt' = step

\* lines 227-230
SendStart ==
    /\ pc = "start"
    /\ \E o \in SmtpOutcomes :
        LET r == send_email("business", "Initialization", "initialized", "", o)
        IN  /\ emails' = emails \o r.sent
            /\ smtpOpen' = smtpOpen + r.smtp
            /\ credHeld' = credHeld + r.held
            /\ IF r.raised # NoExc
               THEN Raise("start", r.raised)
               ELSE pc' = "login" /\ UNCHANGED <<exc, failedAt>>
    /\ UNCHANGED <<envVars, scrapeVars, dbVars, escaped, session, posts>>

\* line 232
Login ==
    /\ pc = "login"
    /\ \E o \in LoginOutcomes :
        LET r == login(o)
        IN  /\ session' = r.session
            /\ posts' = posts + r.posts
            /\ credHeld' = credHeld + r.held
            /\ IF r.raised # NoExc
               THEN Raise("login", r.raised)
               ELSE pc' = "scraping" /\ UNCHANGED <<exc, failedAt>>
    /\ UNCHANGED <<envVars, scrapeVars, dbVars, escaped, emails, smtpOpen>>

\* lines 102-104
ScrapeBegin ==
    /\ pc = "scraping"
    /\ url' = read_config_value("extract_url", config)
    /\ row_data' = <<>>
    /\ pc' = "loop"
    /\ UNCHANGED <<envVars, dbVars, exc, failedAt, escaped, emails, smtpOpen,
                   credHeld, session, posts, headers, fetches, results>>

\* an exception leaves scraping(): its locals are gone
ScrapeRaise(e) ==
    /\ Raise("scraping", e)
    /\ url' = None
    /\ row_data' = <<>>
    /\ headers' = <<>>

\* lines 106-136: one iteration of the while loop
ScrapeFetch ==
    /\ pc = "loop"
    /\ Len(fetches) <= MaxPages
    /\ IF url = None
       THEN /\ ScrapeRaise(BusinessException("Unable to identify the URL for extraction."))
            /\ UNCHANGED fetches
       ELSE LET p == PageOf(url[2])
            IN  \E resp \in Responses(p) :
                /\ fetches' = Append(fetches, p)
                /\ IF resp.raised # NoExc
                   THEN ScrapeRaise(resp.raised)
                   ELSE IF resp.status # 200
                   THEN ScrapeRaise(BusinessException(
                            "Unable to extract data from provided URL."))
                   ELSE IF ~resp.table
                   THEN ScrapeRaise(Exc("AttributeError",
                            "'NoneType' object has no attribute 'find_all'"))
                   ELSE IF site[p] = "noControl"
                   THEN ScrapeRaise(Exc("AttributeError",
                            "'NoneType' object has no attribute 'find'"))
                   ELSE /\ row_data' = row_data \o resp.trs
                        /\ headers' = resp.th
                        /\ IF next_url(site[p], p) # PyStr("")
                           THEN url' = next_url(site[p], p) /\ pc' = "loop"
                           ELSE url' = url /\ pc' = "frame"
                        /\ UNCHANGED <<exc, failedAt>>
    /\ UNCHANGED <<envVars, dbVars, escaped, emails, smtpOpen, credHeld,
                   session, posts, results>>

\* lines 138-149
ScrapeFrame ==
    /\ pc = "frame"
    /\ LET r == frame(row_data, headers)
       IN  IF r.raised # NoExc
           THEN ScrapeRaise(r.raised) /\ UNCHANGED results
           ELSE /\ results' = r.results
                /\ pc' = "insert"
                /\ UNCHANGED <<exc, failedAt, url, row_data, headers>>
    /\ UNCHANGED <<envVars, dbVars, escaped, emails, smtpOpen, credHeld,
                   session, posts, fetches>>

\* line 236; the locals of scraping() are gone by now
InsertIntoDb ==
    /\ pc = "insert"
    /\ \E o \in InsertOutcomes(results) :
        LET r == insert_into_db(results, o)
        IN  /\ dbLookups' = dbLookups + r.lookups
            /\ dbConnects' = dbConnects + r.connects
            /\ inserted' = inserted + r.inserted
            /\ committed' = r.committed
            /\ cnxnOpen' = cnxnOpen + r.cnxn
            /\ cursorOpen' = cursorOpen + r.cursor
            /\ credHeld' = credHeld + r.held
            /\ IF r.raised # NoExc
               THEN Raise("insert", r.raised)
               ELSE pc' = "success" /\ UNCHANGED <<exc, failedAt>>
    /\ url' = None
    /\ row_data' = <<>>
    /\ headers' = <<>>
    /\ UNCHANGED <<envVars, escaped, emails, smtpOpen, session, posts,
                   fetches, results>>

\* lines 238-242
SendSuccess ==
    /\ pc = "success"
    /\ \E o \in SmtpOutcomes :
        LET r == send_email("business", "Completion", "completed", "work_items.csv", o)
        IN  /\ emails' = emails \o r.sent
            /\ smtpOpen' = smtpOpen + r.smtp
            /\ credHeld' = credHeld + r.held
            /\ IF r.raised # NoExc
               THEN Raise("success", r.raised)
               ELSE pc' = "done" /\ UNCHANGED <<exc, failedAt>>
    /\ UNCHANGED <<envVars, scrapeVars, dbVars, escaped, session, posts>>

\* lines 243-253: the except clause; an exception of its own send_email
\* leaves main()
HandleException ==
    /\ pc = "except"
    /\ \E o \in SmtpOutcomes :
        LET r == send_email(Audience(exc), FailureSubject(exc), exc.msg, "", o)
        IN  /\ emails' = emails \o r.sent
            /\ smtpOpen' = smtpOpen + r.smtp
            /\ credHeld' = credHeld + r.held
            /\ escaped' = r.raised
            /\ pc' = IF r.raised # NoExc THEN "crashed" ELSE "done"
    /\ UNCHANGED <<envVars, scrapeVars, dbVars, exc, failedAt, session, posts>>

(***************************************************************************)
(* The runs of main()                                                      *)
(***************************************************************************)
\* the configurations main() is started with: the full Settings sheet, or
\* the sheet with one setting missing
Configs == {FullConfig} \cup {Without(k) : k \in ConfigKeys}

\* the credential stores: every entry in order, or one entry not in order
Stores ==
    {AllOk} \cup {[AllOk EXCEPT ![n] = e] : n \in CredNames, e \in EntryStates \ {"ok"}}

\* listings of 1..MaxPages pages: every page but the last links to the next
\* one, the last page has any pagination markup
Sites ==
    {[p \in 1..n |-> IF p < n THEN "next" ELSE k] : n \in 1..MaxPages, k \in PagKinds}

InitRun ==
    /\ exc = NoExc
    /\ failedAt = ""
    /\ escaped = NoExc
    /\ emails = <<>>
    /\ smtpOpen = 0
    /\ credHeld = 0
    /\ cnxnOpen = 0
    /\ cursorOpen = 0
    /\ session = FALSE
    /\ posts = 0
    /\ url = None
    /\ row_data = <<>>
    /\ headers = <<>>
    /\ fetches = <<>>
    /\ results = EmptyFrame
    /\ dbLookups = 0
    /\ dbConnects = 0
    /\ inserted = 0
    /\ committed = FALSE

Init ==
    /\ config \in Configs
    /\ store \in Stores
    /\ site \in Sites
    /\ key = ""
    /\ ret = None
    /\ pc = "start"
    /\ InitRun

Next ==
    \/ SendStart
    \/ Login
    \/ ScrapeBegin
    \/ ScrapeFetch
    \/ ScrapeFrame
    \/ InsertIntoDb
    \/ SendSuccess
    \/ HandleException

Spec == Init /\ [][Next]_vars

(***************************************************************************)
(* Stand-alone configuration lookups                                       *)
(***************************************************************************)
\* cells of a Settings sheet: empty and non-empty text, an integer, an
\* empty cell (read as NaN) and a boolean
CellValues == {PyStr(""), PyStr("smtp.acme"), PyInt("587"),
               <<"float", "nan">>, <<"bool", "True">>}

CellNames == {"email_port", "email_server_name"}

ConfigTables ==
    UNION {[1..n -> [Name : CellNames, Value : CellValues]] : n \in 0..MaxConfigRows}

ReadConfigValue ==
    /\ pc = "lookup"
    /\ ret' = read_config_value(key, config)
    /\ pc' = "returned"
    /\ UNCHANGED <<config, key, store, site, exc, failedAt, escaped, emails,
                   smtpOpen, credHeld, session, posts, scrapeVars, dbVars>>

InitConfig ==
    /\ config \in ConfigTables
    /\ key \in CellNames
    /\ ret = None
    /\ store = AllOk
    /\ site = <<"noSibling">>
    /\ pc = "lookup"
    /\ InitRun

NextConfig == ReadConfigValue

SpecConfig == InitConfig /\ [][NextConfig]_vars

(***************************************************************************)
(* Properties                                                              *)
(***************************************************************************)
Ended == pc \in {"done", "crashed"}

Failed == failedAt # ""

IsFailureEmail(m) == m.Subject \in {"Business Exception", "Technical Exception"}

FailureEmails == SelectSeq(emails, IsFailureEmail)

EmailsTo(addr) == LET ToAddr(m) == m.To = addr IN SelectSeq(emails, ToAddr)

\* the recipients and the subject a failure of this type must be reported to
ExpectedTo(e) ==
    IF e.type = "BusinessException" THEN "business@acme" ELSE "technical@acme"

ExpectedSubject(e) ==
    IF e.type = "BusinessException" THEN "Business Exception" ELSE "Technical Exception"

StartEmail ==
    [To |-> "business@acme", Subject |-> "Initialization", Body |-> "initialized",
     Attachment |-> ""]

\* insert_into_db has been called in this run
InsertCalled ==
    \/ pc = "success"
    \/ failedAt \in {"insert", "success"}
    \/ pc = "done" /\ ~Failed

\* scraping has returned its collection
ScrapingReturned == pc = "insert" \/ InsertCalled

C3_AbsentCredentialIsBusiness ==
    /\ (failedAt = "start" /\ config = FullConfig /\ store["email_cred"] = "absent") =>
        (exc.type = "BusinessException" /\ EmailsTo("technical@acme") = <<>>)
    /\ (failedAt = "login" /\ config = FullConfig /\ store["ACME_cred"] = "absent") =>
        (exc.type = "BusinessException" /\ EmailsTo("technical@acme") = <<>>)
    /\ (failedAt = "insert" /\ config = FullConfig /\ store["DB_cred"] = "absent"
            /\ results.rows # <<>>) =>
        (exc.type = "BusinessException" /\ EmailsTo("technical@acme") = <<>>)

\* C4: a credential POST answered with a non-success status makes login
\* fail after that one POST, nothing is scraped or inserted, and the failure
\* is a BusinessException reported to the business recipients only.
C4_LoginRejectedIsBusiness ==
    (failedAt = "login" /\ exc.msg = "Unable to login into ACME Website.") =>
        /\ posts = 1
        /\ fetches = <<>>
        /\ inserted = 0
        /\ exc.type = "BusinessException"
        /\ EmailsTo("technical@acme") = <<>>

\* C5: insert_into_db called with an empty collection raises the
\* BusinessException for no work items, and has made no configuration or
\* credential lookup, opened no connection or cursor, and inserted and
\* committed nothing.
C5_EmptyInsertRaises ==
    (InsertCalled /\ results.rows = <<>>) =>
        /\ failedAt = "insert"
        /\ exc = BusinessException(
               "There are no work items available in ACME website to extract")
        /\ dbLookups = 0
        /\ dbConnects = 0
        /\ inserted = 0
        /\ ~committed
        /\ cnxnOpen = 0
        /\ cursorOpen = 0

C5_Witness ==
    /\ failedAt = "insert"
    /\ results.rows = <<>>
    /\ fetches # <<>>

\* the listing is a chain: every page but the last links to the next page,
\* the marker of the last page has no following sibling
Chain ==
    /\ \A p \in 1..(Len(site) - 1) : site[p] = "next"
    /\ site[Len(site)] = "noSibling"

AllPages == [p \in 1..Len(site) |-> p]

C7_OpenRowsOnly ==
    pc = "insert" =>
        LET st == IndexOf(headers, "Status")
            HasOpen(r) == Len(r) >= st /\ r[st] = "Open"
            open == SelectSeq(row_data, HasOpen)
            NotActions(c) == c # "Actions"
        IN  /\ "Actions" \notin Range(results.columns)
            /\ results.columns = SelectSeq(headers, NotActions)
            /\ Len(results.rows) = Len(open)
            /\ \A i \in 1..Len(results.rows) :
                /\ Len(results.rows[i]) = Len(results.columns)
                /\ results.rows[i][IndexOf(results.columns, "Status")] = "Open"
                /\ \A k \in 1..Len(results.columns) :
                    LET j == IndexOf(headers, results.columns[k])
                    IN  results.rows[i][k] =
                            IF j <= Len(open[i]) THEN open[i][j] ELSE "None"

C7_Witness ==
    /\ pc = "insert"
    /\ Len(results.rows) >= 2
    /\ "Actions" \in Range(headers)
    /\ \E i \in DOMAIN row_data : Len(row_data[i]) > 0 /\ row_data[i][4] = "Closed"

\* C8: read_config_value returns the stored value when exactly one row has
\* the key as Name and its Value is a non-empty string or an integer, and
\* None in every other case.
C8_LookupReturnsStored ==
    pc = "returned" =>
        LET Match(r) == r.Name = key
            rows == SelectSeq(config, Match)
        IN  ret = IF /\ Len(rows) = 1
                     /\ rows[1].Value[1] \in {"str", "int"}
                     /\ rows[1].Value # PyStr("")
                  THEN rows[1].Value
                  ELSE None

\* C9: when the next-page lookup on a served page fails (no pagination
\* control, no current-page marker, no following sibling, no link, no href)
\* the loop is over after that page and scraping raises no error for it.
C9_LookupFailureEndsPagination ==
    (/\ fetches # <<>>
     /\ fetches[Len(fetches)] <= Len(site)
     /\ site[fetches[Len(fetches)]] \in
            {"noControl", "noCurrent", "noSibling", "noLink", "noHref"}) =>
        /\ pc # "loop"
        /\ ~(/\ failedAt = "scraping"
             /\ exc.msg \in {"'NoneType' object has no attribute 'find'",
                             "Unable to identify the URL for extraction."})

\* C10: when the run is over no SMTP session, database connection, cursor
\* or credential buffer is left unreleased.
C10_ResourcesReleased ==
    Ended => (smtpOpen = 0 /\ cnxnOpen = 0 /\ cursorOpen = 0 /\ credHeld = 0)

====
